---- MODULE Spec2Model ----
(***************************************************************************)
(* Vote ledger and vote counter of the feature voting platform.           *)
(*                                                                         *)
(* The model covers the REST handlers of adapters/rest (VoteForFeature,    *)
(* RemoveVoteFromFeature, ToggleVote, DeleteFeature, GetFeature), the      *)
(* repository                                                              *)
(* methods of adapters/postgres they call (FeatureExists, HasUserVoted,    *)
(* GetByID, AddVote, RemoveVote, Delete) and the schema of the initial     *)
(* migration (UNIQUE(user_id, feature_id), the foreign key with ON DELETE  *)
(* CASCADE, the vote_count_increment / vote_count_decrement triggers).     *)
(*                                                                         *)
(* Every SQL statement is one step of the connection that runs it.  A      *)
(* statement that has to wait for a row lock is a disabled step.  The      *)
(* store is PostgreSQL: rows written by a transaction become visible at    *)
(* its COMMIT; a SERIALIZABLE transaction that updates or deletes a row    *)
(* changed by a transaction committed after its snapshot fails; a READ     *)
(* COMMITTED statement works on the latest committed row.                  *)
(*                                                                         *)
(* Spec runs the requests of NumConns connections concurrently,            *)
(* SpecAbandon adds the failure of any statement or commit, SpecSession    *)
(* is one client sending its requests one after the other, SpecAdmin adds  *)
(* CreateFeature, UserRepository.Delete and the fix_vote_counts migration, *)
(* SpecUpdate adds UpdateFeature, SpecFair is Spec with fair scheduling.   *)
(***************************************************************************)
EXTENDS Integers, FiniteSets, Sequences, TLC

\* ---------------------------------------------------------------- bounds
NumUsers == 2
NumFeatures == 1
NumConns == 2
MaxRequests == 4
NumCreated == 1

Users == 1..NumUsers
Features == 1..NumFeatures
Conns == 1..NumConns

\* ------------------------------------------------ HTTP status codes (net/http)
StatusOK == 200
StatusCreated == 201
StatusForbidden == 403
StatusNotFound == 404
StatusConflict == 409
StatusInternalServerError == 500

Ops == {"vote", "unvote", "toggle", "delete", "get"}

VARIABLES
    features,     \* ids of the committed rows of table features
    vote_count,   \* features.vote_count of each committed row
    featVer,      \* number of committed updates of each features row
    votes,        \* committed rows of table votes: [id, user_id, feature_id]
    nextVoteId,   \* votes_id_seq
    pc,           \* position of each connection's handler
    req,          \* the request a connection serves: [op, user, feature]
    tx,           \* the open transaction of a connection
    resp,         \* the response written by the handler: [status, err, vote_count]
    issued,       \* requests and other operations started so far
    attempts,     \* calls of AddVote / RemoveVote made for the current request
    votedSince,   \* history: the caller's vote row was committed when the request
                  \* started, and no commit has removed it since
    unvotedSince, \* history: the caller had no committed vote row when the request
                  \* started, and no commit has inserted one since
    wrote,        \* history: the transaction of the current request has committed
    readObs,      \* history: what the store has shown of the pair since the first
                  \* query of a GetByID
    users,        \* ids of the committed rows of table users
    created_by,   \* features.created_by of each features row
    nextFeatureId, \* features_id_seq
    migrated,     \* the fix_vote_counts migration is recorded as applied
    fixSnapshot,  \* the snapshot of the migration's UPDATE while it runs
    title,        \* features.title of each committed row
    description,  \* features.description of each committed row
    updReq,       \* the body of the update request a connection serves: [title, description]
    snapObs,      \* history: what the snapshot of the transaction shows of its pair
    seen,         \* history: what the store showed when the session's request arrived
    log           \* history: the answered requests of the session, in order

vars == <<features, vote_count, featVer, votes, nextVoteId, pc, req, tx, resp, issued,
          attempts, votedSince, unvotedSince, wrote, readObs, users, created_by,
          nextFeatureId, migrated, fixSnapshot, title, description, updReq,
          snapObs, seen, log>>

\* what only the operations of SpecAdmin change
adminVars == <<users, created_by, nextFeatureId, migrated, fixSnapshot,
               title, description, updReq>>

\* the history of a session, kept by SpecSession only
sessionVars == <<seen, log>>

dbVars == <<features, vote_count, featVer, votes>>

\* features.created_by
CreatedBy(f) == created_by[f]

\* ------------------------------------------------------- transaction state
\* fver/vids: what the transaction snapshot shows (version of the features
\* row, or -1 when the row is absent; ids of the caller's vote rows).
\* ins: id of an uncommitted row inserted into votes, 0 when there is none.
\* del: ids of vote rows
\* deleted (and locked) by the transaction.  keyShare / upd / delFeat: the
\* FOR KEY SHARE, FOR NO KEY UPDATE and FOR UPDATE lock on the features row.
\* delta: the uncommitted change of vote_count.
NoTx == [fver |-> -1, vids |-> {}, ins |-> 0, del |-> {}, keyShare |-> FALSE,
         upd |-> FALSE, delFeat |-> FALSE, delta |-> 0]

NoReq == [op |-> "none", user |-> 1, feature |-> 1]

\* sqlstate: the error code of the store behind a repository error
\* has_user_voted: the field of the feature in a GetFeature response.
\* removed: the vote rows that went with the feature of a DeleteFeature.
NoResp == [status |-> 0, err |-> "", sqlstate |-> "", vote_count |-> 0,
           has_user_voted |-> FALSE, removed |-> 0]

VoteRows(u, f) == {r \in votes : r.user_id = u /\ r.feature_id = f}

FeatureVotes(f) == {r \in votes : r.feature_id = f}

Others(p) == Conns \ {p}

\* What the store shows of a (user, feature) pair
Obs(u, f) == [exists |-> f \in features, voted |-> VoteRows(u, f) # {},
              count |-> vote_count[f]]

NoObs == [exists |-> FALSE, voted |-> FALSE, count |-> 0]

\* a nil *string of UpdateFeatureRequest
Nil == "nil"

NoBody == [title |-> Nil, description |-> Nil]

NoSnapshot == [taken |-> FALSE, features |-> {}, votes |-> {}]

Init ==
    /\ features = Features
    /\ vote_count = [f \in Features |-> 0]
    /\ featVer = [f \in Features |-> 0]
    /\ votes = {}
    /\ nextVoteId = 1
    /\ pc = [p \in Conns |-> "idle"]
    /\ req = [p \in Conns |-> NoReq]
    /\ tx = [p \in Conns |-> NoTx]
    /\ resp = [p \in Conns |-> NoResp]
    /\ issued = 0
    /\ attempts = [p \in Conns |-> 0]
    /\ votedSince = [p \in Conns |-> FALSE]
    /\ unvotedSince = [p \in Conns |-> FALSE]
    /\ wrote = [p \in Conns |-> FALSE]
    /\ readObs = [p \in Conns |-> {}]
    /\ users = Users
    /\ created_by = [f \in Features |-> 1]
    /\ nextFeatureId = NumFeatures + 1
    /\ migrated = FALSE
    /\ fixSnapshot = NoSnapshot
    /\ title = [f \in Features |-> "t0"]
    /\ description = [f \in Features |-> "d0"]
    /\ updReq = [p \in Conns |-> NoBody]
    /\ snapObs = [p \in Conns |-> NoObs]
    /\ seen = NoObs
    /\ log = <<>>

\* ------------------------------------------------------------ repository reads
\* a check that finds every id
FeatureExistsAlways(id) == TRUE

\* SELECT EXISTS(SELECT 1 FROM features WHERE id = $1)
FeatureExists(id) == id \in features

\* the query with its two parameters bound the wrong way round
HasUserVotedSwapped(userID, featureID) == VoteRows(featureID, userID) # {}

\* SELECT EXISTS(SELECT 1 FROM votes WHERE user_id = $1 AND feature_id = $2)
HasUserVoted(userID, featureID) == VoteRows(userID, featureID) # {}

\* ------------------------------------------------------------ handler helpers
\* c.JSON(status, ...) followed by return
Respond(p, status, err, count) ==
    /\ pc' = [pc EXCEPT ![p] = "done"]
    /\ resp' = [resp EXCEPT ![p] = [NoResp EXCEPT !.status = status, !.err = err,
                                                  !.vote_count = count]]

\* vote handlers that go to the ledger without the existence check
FirstCallHasUserVoted(o) ==
    CASE o = "delete" -> "del_get"
      [] o = "get" -> "get_row"
      [] OTHER -> "has_voted"

\* The first repository call of each handler: GetByID in DeleteFeature and
\* GetFeature, FeatureExists in the three vote handlers
FirstCall(o) ==
    CASE o = "delete" -> "del_get"
      [] o = "get" -> "get_row"
      [] OTHER -> "exists"

\* A request arrives on an idle connection.
Start(p) ==
    /\ pc[p] \in {"idle", "done"}
    /\ issued < MaxRequests
    /\ \E o \in Ops, u \in Users, f \in Features \cup features :
          req' = [req EXCEPT ![p] = [op |-> o, user |-> u, feature |-> f]]
    /\ pc' = [pc EXCEPT ![p] = FirstCall(req'[p].op)]
    /\ resp' = [resp EXCEPT ![p] = NoResp]
    /\ issued' = issued + 1
    /\ attempts' = [attempts EXCEPT ![p] = 0]
    /\ votedSince' = [votedSince EXCEPT ![p] = VoteRows(req'[p].user, req'[p].feature) # {}]
    /\ unvotedSince' = [unvotedSince EXCEPT ![p] = VoteRows(req'[p].user, req'[p].feature) = {}]
    /\ wrote' = [wrote EXCEPT ![p] = FALSE]
    /\ readObs' = [readObs EXCEPT ![p] = {}]
    /\ UNCHANGED <<dbVars, nextVoteId, tx, adminVars, snapObs>>

\* h.featureRepo.FeatureExists(featureID) of the three vote handlers
CheckFeatureExists(p) ==
    /\ pc[p] = "exists"
    /\ IF ~FeatureExists(req[p].feature)
          THEN Respond(p, StatusNotFound, "Feature not found", 0)
          ELSE /\ pc' = [pc EXCEPT ![p] = IF req[p].op = "unvote" THEN "rem_begin" ELSE "has_voted"]
               /\ UNCHANGED resp
    /\ UNCHANGED <<dbVars, nextVoteId, req, adminVars, snapObs, tx, issued, attempts, votedSince, unvotedSince, wrote, readObs>>

\* h.voteRepo.HasUserVoted(userID, featureID) of VoteForFeature and ToggleVote
CheckHasVoted(p) ==
    /\ pc[p] = "has_voted"
    /\ LET hasVoted == HasUserVoted(req[p].user, req[p].feature) IN
       IF req[p].op = "vote"
          THEN IF hasVoted
                  THEN Respond(p, StatusConflict, "You have already voted for this feature", 0)
                  ELSE /\ pc' = [pc EXCEPT ![p] = "add_begin"]
                       /\ UNCHANGED resp
          ELSE /\ pc' = [pc EXCEPT ![p] = IF hasVoted THEN "rem_begin" ELSE "add_begin"]
               /\ UNCHANGED resp
    /\ UNCHANGED <<dbVars, nextVoteId, req, adminVars, snapObs, tx, issued, attempts, votedSince, unvotedSince, wrote, readObs>>

\* ------------------------------------------------------------------ row locks
\* Connections whose open transaction makes the next statement of p wait.
Blockers(p) ==
    LET f == req[p].feature
        u == req[p].user
        o == Others(p)
        rowLocked(ids) == {q \in o : tx[q].del \cap ids # {}}
        updLocked == {q \in o : req[q].feature = f /\ (tx[q].upd \/ tx[q].delFeat)}
    IN CASE pc[p] = "add_insert" ->
              {q \in o : tx[q].ins # 0 /\ req[q].user = u /\ req[q].feature = f}
         [] pc[p] = "add_fk" -> {q \in o : req[q].feature = f /\ tx[q].delFeat}
         [] pc[p] \in {"add_trigger", "add_update", "rem_trigger", "rem_update",
                       "del_trigger"} -> updLocked
         [] pc[p] = "rem_delete" -> rowLocked(tx[p].vids)
         [] pc[p] = "del_votes" -> rowLocked({r.id : r \in FeatureVotes(f)})
         [] pc[p] = "del_feature" ->
              {q \in o : req[q].feature = f /\ (tx[q].keyShare \/ tx[q].upd \/ tx[q].delFeat)}
         [] pc[p] = "del_cascade" -> rowLocked({r.id : r \in FeatureVotes(f)} \ tx[p].del)
         [] OTHER -> {}

\* ----------------------------------------------------------- repository errors
\* a handler that does not tell "vote not found" from the other errors
ErrorStatusInternal(o, goErr) == StatusInternalServerError

\* The handlers map every repository error to 500, except "vote not found"
\* of RemoveVoteFromFeature.
ErrorStatus(o, goErr) ==
    IF o = "unvote" /\ goErr = "vote not found"
       THEN StatusNotFound
       ELSE StatusInternalServerError

\* return fmt.Errorf(...) in a repository method: the deferred tx.Rollback()
\* runs, and the handler answers with the error status.
RepoFail(p, goErr, sqlstate) ==
    /\ tx' = [tx EXCEPT ![p] = NoTx]
    /\ pc' = [pc EXCEPT ![p] = "done"]
    /\ resp' = [resp EXCEPT ![p] = [NoResp EXCEPT !.status = ErrorStatus(req[p].op, goErr),
                                                  !.err = goErr, !.sqlstate = sqlstate]]

\* history: a GetByID between its two queries has a new committed state
\* before it
Visible ==
    readObs' = [q \in Conns |->
                  IF pc[q] = "get_voted"
                     THEN readObs[q] \cup {Obs(u, g)' : u \in {req[q].user},
                                                       g \in {req[q].feature}}
                     ELSE readObs[q]]

\* tx.Commit(): the rows written by the transaction become visible together.
CommitTx(p) ==
    LET f == req[p].feature
        t == tx[p]
        inserted == IF t.ins = 0 THEN {}
                    ELSE {[id |-> t.ins, user_id |-> req[p].user, feature_id |-> f]}
    IN /\ votes' = {r \in votes : r.id \notin t.del} \cup inserted
       /\ features' = IF t.delFeat THEN features \ {f} ELSE features
       /\ vote_count' = IF t.delFeat THEN [vote_count EXCEPT ![f] = 0]
                        ELSE IF t.upd THEN [vote_count EXCEPT ![f] = @ + t.delta]
                        ELSE vote_count
       /\ featVer' = IF t.upd \/ t.delFeat THEN [featVer EXCEPT ![f] = @ + 1] ELSE featVer
       /\ tx' = [tx EXCEPT ![p] = NoTx]
       /\ votedSince' = [q \in Conns |->
                           /\ votedSince[q]
                           /\ \A r \in VoteRows(req[q].user, req[q].feature) : r.id \notin t.del]
       /\ unvotedSince' = [q \in Conns |->
                             /\ unvotedSince[q]
                             /\ ~(t.ins # 0 /\ req[q].user = req[p].user /\ req[q].feature = f)]
       /\ wrote' = [wrote EXCEPT ![p] = TRUE]
       /\ Visible

\* a READ COMMITTED update, which takes the latest version of the row
UpdatedSinceSnapshotIgnored(p) == FALSE

\* the features row of the request was updated or deleted by a transaction
\* that committed after the snapshot of the transaction of p
UpdatedSinceSnapshot(p) ==
    req[p].feature \notin features \/ featVer[req[p].feature] # tx[p].fver

\* UPDATE features SET vote_count = vote_count + d WHERE id = f in a
\* SERIALIZABLE transaction: an update of a row that a transaction committed
\* after the snapshot has changed fails (SQLSTATE 40001).
UpdateCount(p, d, next, goErr) ==
    LET f == req[p].feature IN
    /\ Blockers(p) = {}
    /\ IF tx[p].fver = -1
          THEN \* no row in the snapshot: zero rows updated
               /\ pc' = [pc EXCEPT ![p] = next]
               /\ UNCHANGED <<tx, resp>>
          ELSE IF ~tx[p].upd /\ UpdatedSinceSnapshot(p)
          THEN RepoFail(p, goErr, "40001")
          ELSE /\ tx' = [tx EXCEPT ![p].upd = TRUE, ![p].delta = @ + d]
               /\ pc' = [pc EXCEPT ![p] = next]
               /\ UNCHANGED resp
    /\ UNCHANGED <<dbVars, nextVoteId, req, adminVars, snapObs, issued, attempts, votedSince, unvotedSince, wrote, readObs>>

\* ------------------------------------------------ FeatureRepository.AddVote
\* r.db.Begin(); SET TRANSACTION ISOLATION LEVEL SERIALIZABLE; the snapshot
\* is the one of the first statement.
AddVoteBegin(p) ==
    /\ pc[p] = "add_begin"
    /\ tx' = [tx EXCEPT ![p] = [NoTx EXCEPT !.fver = IF req[p].feature \in features
                                                      THEN featVer[req[p].feature] ELSE -1]]
    /\ pc' = [pc EXCEPT ![p] = "add_insert"]
    /\ attempts' = [attempts EXCEPT ![p] = @ + 1]
    /\ UNCHANGED <<dbVars, nextVoteId, req, adminVars, resp, issued, votedSince, unvotedSince, wrote, readObs>>
    /\ snapObs' = [snapObs EXCEPT ![p] = Obs(req[p].user, req[p].feature)]

\* a votes table without the unique constraint
UniqueViolationNever(u, f) == FALSE

\* UNIQUE(user_id, feature_id): a committed row with the same key
UniqueViolation(u, f) == VoteRows(u, f) # {}

\* the INSERT run on r.db instead of tx: the row is committed at once
AddVoteInsertOutsideTx(p) ==
    /\ pc[p] = "add_insert"
    /\ Blockers(p) = {}
    /\ nextVoteId' = nextVoteId + 1
    /\ IF UniqueViolation(req[p].user, req[p].feature)
          THEN /\ RepoFail(p, "failed to add vote", "23505")
               /\ UNCHANGED votes
          ELSE /\ votes' = votes \cup {[id |-> nextVoteId, user_id |-> req[p].user,
                                        feature_id |-> req[p].feature]}
               /\ pc' = [pc EXCEPT ![p] = "add_fk"]
               /\ UNCHANGED <<tx, resp>>
    /\ UNCHANGED <<features, vote_count, featVer, req, adminVars, snapObs, issued, attempts, votedSince, unvotedSince, wrote, readObs>>

\* INSERT INTO votes (user_id, feature_id): the row and the unique index entry
AddVoteInsert(p) ==
    /\ pc[p] = "add_insert"
    /\ Blockers(p) = {}
    /\ nextVoteId' = nextVoteId + 1
    /\ IF UniqueViolation(req[p].user, req[p].feature)
          THEN RepoFail(p, "failed to add vote", "23505")
          ELSE /\ tx' = [tx EXCEPT ![p].ins = nextVoteId]
               /\ pc' = [pc EXCEPT ![p] = "add_fk"]
               /\ UNCHANGED resp
    /\ UNCHANGED <<dbVars, req, adminVars, snapObs, issued, attempts, votedSince, unvotedSince, wrote, readObs>>

\* a votes table whose feature_id references nothing
AddVoteForeignKeyNone(p) ==
    /\ pc[p] = "add_fk"
    /\ pc' = [pc EXCEPT ![p] = "add_trigger"]
    /\ UNCHANGED <<dbVars, nextVoteId, req, adminVars, snapObs, tx, resp, issued, attempts, votedSince,
                   unvotedSince, wrote, readObs>>

\* user_id REFERENCES users(id), feature_id REFERENCES features(id): the
\* checks lock the rows FOR KEY SHARE
AddVoteForeignKey(p) ==
    /\ pc[p] = "add_fk"
    /\ Blockers(p) = {}
    /\ IF req[p].feature \notin features \/ tx[p].fver = -1 \/ req[p].user \notin users
          THEN RepoFail(p, "failed to add vote", "23503")
          ELSE /\ tx' = [tx EXCEPT ![p].keyShare = TRUE]
               /\ pc' = [pc EXCEPT ![p] = "add_trigger"]
               /\ UNCHANGED resp
    /\ UNCHANGED <<dbVars, nextVoteId, req, adminVars, snapObs, issued, attempts, votedSince, unvotedSince, wrote, readObs>>

\* trigger vote_count_increment AFTER INSERT ON votes
AddVoteTrigger(p) ==
    /\ pc[p] = "add_trigger"
    /\ UpdateCount(p, 1, "add_update", "failed to add vote")

\* UPDATE features SET vote_count = vote_count + 1 WHERE id = $1
AddVoteUpdate(p) ==
    /\ pc[p] = "add_update"
    /\ UpdateCount(p, 1, "add_commit", "failed to update vote count")

\* return tx.Commit(), back in the handler
AddVoteCommit(p) ==
    /\ pc[p] = "add_commit"
    /\ CommitTx(p)
    /\ pc' = [pc EXCEPT ![p] = "get_updated"]
    /\ UNCHANGED <<nextVoteId, req, adminVars, snapObs, resp, issued, attempts>>

\* h.featureRepo.GetByID(featureID, &userID) after the write, and the 200
GetUpdated(p) ==
    /\ pc[p] = "get_updated"
    /\ IF req[p].feature \notin features
          THEN Respond(p, StatusInternalServerError, "feature not found", 0)
          ELSE Respond(p, StatusOK, "", vote_count[req[p].feature])
    /\ UNCHANGED <<dbVars, nextVoteId, req, adminVars, snapObs, tx, issued, attempts, votedSince, unvotedSince, wrote, readObs>>

\* --------------------------------------------- FeatureRepository.RemoveVote
\* r.db.Begin(); SET TRANSACTION ISOLATION LEVEL SERIALIZABLE
RemoveVoteBegin(p) ==
    /\ pc[p] = "rem_begin"
    /\ tx' = [tx EXCEPT ![p] =
                [NoTx EXCEPT !.fver = IF req[p].feature \in features
                                         THEN featVer[req[p].feature] ELSE -1,
                             !.vids = {r.id : r \in VoteRows(req[p].user, req[p].feature)}]]
    /\ pc' = [pc EXCEPT ![p] = "rem_delete"]
    /\ attempts' = [attempts EXCEPT ![p] = @ + 1]
    /\ UNCHANGED <<dbVars, nextVoteId, req, adminVars, resp, issued, votedSince, unvotedSince, wrote, readObs>>
    /\ snapObs' = [snapObs EXCEPT ![p] = Obs(req[p].user, req[p].feature)]

\* DELETE FROM votes WHERE user_id = $1 AND feature_id = $2, and the
\* rowsAffected == 0 test that follows the statement
RemoveVoteDelete(p) ==
    /\ pc[p] = "rem_delete"
    /\ Blockers(p) = {}
    /\ IF tx[p].vids = {}
          THEN RepoFail(p, "vote not found", "")
          ELSE IF ~(tx[p].vids \subseteq {r.id : r \in votes})
          THEN RepoFail(p, "failed to remove vote", "40001")
          ELSE /\ tx' = [tx EXCEPT ![p].del = tx[p].vids]
               /\ pc' = [pc EXCEPT ![p] = "rem_trigger"]
               /\ UNCHANGED resp
    /\ UNCHANGED <<dbVars, nextVoteId, req, adminVars, snapObs, issued, attempts, votedSince, unvotedSince, wrote, readObs>>

\* trigger vote_count_decrement AFTER DELETE ON votes, FOR EACH ROW
RemoveVoteTrigger(p) ==
    /\ pc[p] = "rem_trigger"
    /\ UpdateCount(p, 0 - Cardinality(tx[p].del), "rem_update", "failed to remove vote")

\* RemoveVote without its UPDATE statement
RemoveVoteUpdateSkipped(p) ==
    /\ pc[p] = "rem_update"
    /\ pc' = [pc EXCEPT ![p] = "rem_commit"]
    /\ UNCHANGED <<dbVars, nextVoteId, req, adminVars, snapObs, tx, resp, issued, attempts, votedSince,
                   unvotedSince, wrote, readObs>>

\* UPDATE features SET vote_count = vote_count - 1 WHERE id = $1
RemoveVoteUpdate(p) ==
    /\ pc[p] = "rem_update"
    /\ UpdateCount(p, -1, "rem_commit", "failed to update vote count")

\* return nil instead of tx.Commit(): the deferred tx.Rollback() undoes the delete
RemoveVoteCommitMissing(p) ==
    /\ pc[p] = "rem_commit"
    /\ tx' = [tx EXCEPT ![p] = NoTx]
    /\ pc' = [pc EXCEPT ![p] = "get_updated"]
    /\ UNCHANGED <<dbVars, nextVoteId, req, adminVars, snapObs, resp, issued, attempts, votedSince, unvotedSince, wrote, readObs>>

\* return tx.Commit(), back in the handler
RemoveVoteCommit(p) ==
    /\ pc[p] = "rem_commit"
    /\ CommitTx(p)
    /\ pc' = [pc EXCEPT ![p] = "get_updated"]
    /\ UNCHANGED <<nextVoteId, req, adminVars, snapObs, resp, issued, attempts>>

\* ------------------------------- FeatureHandler.DeleteFeature and Delete
\* the handler without its creator test
DeleteGetAnyUser(p) ==
    /\ pc[p] = "del_get"
    /\ IF req[p].feature \notin features
          THEN Respond(p, StatusNotFound, "Feature not found", 0)
          ELSE /\ pc' = [pc EXCEPT ![p] = "del_votes"]
               /\ UNCHANGED resp
    /\ UNCHANGED <<dbVars, nextVoteId, req, adminVars, snapObs, tx, issued, attempts, votedSince, unvotedSince, wrote, readObs>>

\* h.featureRepo.GetByID(id, nil), the creator test, then r.db.Begin()
DeleteGet(p) ==
    /\ pc[p] = "del_get"
    /\ IF req[p].feature \notin features
          THEN Respond(p, StatusNotFound, "Feature not found", 0)
          ELSE IF CreatedBy(req[p].feature) # req[p].user
          THEN Respond(p, StatusForbidden, "You can only delete your own features", 0)
          ELSE /\ pc' = [pc EXCEPT ![p] = "del_votes"]
               /\ UNCHANGED resp
    /\ UNCHANGED <<dbVars, nextVoteId, req, adminVars, snapObs, tx, issued, attempts, votedSince, unvotedSince, wrote, readObs>>

\* the DELETE run on r.db instead of tx: the rows are gone at once
DeleteVotesOutsideTx(p) ==
    /\ pc[p] = "del_votes"
    /\ Blockers(p) = {}
    /\ votes' = votes \ FeatureVotes(req[p].feature)
    /\ tx' = [tx EXCEPT ![p] = NoTx]
    /\ pc' = [pc EXCEPT ![p] = "del_feature"]
    /\ UNCHANGED <<features, vote_count, featVer, nextVoteId, req, adminVars, snapObs, resp, issued, attempts,
                   votedSince, unvotedSince, wrote, readObs>>

\* DELETE FROM votes WHERE feature_id = $1 (READ COMMITTED)
DeleteVotes(p) ==
    /\ pc[p] = "del_votes"
    /\ Blockers(p) = {}
    /\ LET ids == {r.id : r \in FeatureVotes(req[p].feature)} IN
          /\ tx' = [tx EXCEPT ![p] = [NoTx EXCEPT !.del = ids]]
          /\ pc' = [pc EXCEPT ![p] = IF ids = {} THEN "del_feature" ELSE "del_trigger"]
    /\ UNCHANGED <<dbVars, nextVoteId, req, adminVars, snapObs, resp, issued, attempts, votedSince, unvotedSince, wrote, readObs>>

\* trigger vote_count_decrement for the rows of DeleteVotes (READ COMMITTED:
\* the update works on the latest committed row)
DeleteVotesTrigger(p) ==
    /\ pc[p] = "del_trigger"
    /\ Blockers(p) = {}
    /\ tx' = IF req[p].feature \in features
                THEN [tx EXCEPT ![p].upd = TRUE, ![p].delta = @ - Cardinality(tx[p].del)]
                ELSE tx
    /\ pc' = [pc EXCEPT ![p] = "del_feature"]
    /\ UNCHANGED <<dbVars, nextVoteId, req, adminVars, snapObs, resp, issued, attempts, votedSince, unvotedSince, wrote, readObs>>

\* DELETE FROM features WHERE id = $1, and the rowsAffected == 0 test
DeleteFeatureRow(p) ==
    /\ pc[p] = "del_feature"
    /\ Blockers(p) = {}
    /\ IF req[p].feature \notin features
          THEN RepoFail(p, "feature not found", "")
          ELSE /\ tx' = [tx EXCEPT ![p].delFeat = TRUE]
               /\ pc' = [pc EXCEPT ![p] = "del_cascade"]
               /\ UNCHANGED resp
    /\ UNCHANGED <<dbVars, nextVoteId, req, adminVars, snapObs, issued, attempts, votedSince, unvotedSince, wrote, readObs>>

\* a foreign key that lets the vote rows stay behind
DeleteCascadeNone(p) ==
    /\ pc[p] = "del_cascade"
    /\ Blockers(p) = {}
    /\ pc' = [pc EXCEPT ![p] = "del_commit"]
    /\ UNCHANGED <<dbVars, nextVoteId, req, adminVars, snapObs, tx, resp, issued, attempts, votedSince,
                   unvotedSince, wrote, readObs>>

\* votes.feature_id ... ON DELETE CASCADE: the vote rows committed since
\* DeleteVotes go with the feature row
DeleteCascade(p) ==
    /\ pc[p] = "del_cascade"
    /\ Blockers(p) = {}
    /\ tx' = [tx EXCEPT ![p].del = @ \cup {r.id : r \in FeatureVotes(req[p].feature)}]
    /\ pc' = [pc EXCEPT ![p] = "del_commit"]
    /\ UNCHANGED <<dbVars, nextVoteId, req, adminVars, snapObs, resp, issued, attempts, votedSince, unvotedSince, wrote, readObs>>

\* return tx.Commit(), and the 200 of the handler
DeleteCommit(p) ==
    /\ pc[p] = "del_commit"
    /\ CommitTx(p)
    /\ pc' = [pc EXCEPT ![p] = "done"]
    /\ resp' = [resp EXCEPT ![p] = [NoResp EXCEPT !.status = StatusOK,
                                                  !.removed = Cardinality(tx[p].del)]]
    /\ UNCHANGED <<nextVoteId, req, adminVars, snapObs, issued, attempts>>

\* -------------------------------------- FeatureHandler.GetFeature and GetByID
\* the SELECT of the features row in GetByID, and the 404 of the handler
GetByIDRow(p) ==
    /\ pc[p] = "get_row"
    /\ readObs' = [readObs EXCEPT ![p] = {Obs(req[p].user, req[p].feature)}]
    /\ IF req[p].feature \notin features
          THEN Respond(p, StatusNotFound, "Feature not found", 0)
          ELSE /\ pc' = [pc EXCEPT ![p] = "get_voted"]
               /\ resp' = [resp EXCEPT ![p].vote_count = vote_count[req[p].feature]]
    /\ UNCHANGED <<dbVars, nextVoteId, req, adminVars, snapObs, tx, issued, attempts, votedSince, unvotedSince, wrote>>

\* r.HasUserVoted(*userID, id) in GetByID, a second query, and the 200
GetByIDHasUserVoted(p) ==
    /\ pc[p] = "get_voted"
    /\ pc' = [pc EXCEPT ![p] = "done"]
    /\ resp' = [resp EXCEPT ![p].status = StatusOK,
                            ![p].has_user_voted = HasUserVoted(req[p].user, req[p].feature)]
    /\ UNCHANGED <<dbVars, nextVoteId, req, adminVars, snapObs, tx, issued, attempts, votedSince, unvotedSince, wrote, readObs>>

\* ------------------------------------------------------------------ deadlock
\* The repository error of the statement a connection is executing
ErrAt(l) ==
    CASE l \in {"add_insert", "add_fk", "add_trigger"} -> "failed to add vote"
      [] l \in {"rem_delete", "rem_trigger"} -> "failed to remove vote"
      [] l \in {"add_update", "rem_update"} -> "failed to update vote count"
      [] l \in {"del_votes", "del_trigger"} -> "failed to delete votes"
      [] l \in {"del_feature", "del_cascade"} -> "failed to delete feature"
      [] OTHER -> "commit failed"

RECURSIVE WaitsFor(_, _)
\* Connections that p waits for, directly or through at most n others
WaitsFor(p, n) ==
    IF n = 0 THEN {}
    ELSE Blockers(p) \cup UNION {WaitsFor(q, n - 1) : q \in Blockers(p)}

\* a store without deadlock detection
DeadlockedNever(p) == FALSE

Deadlocked(p) == p \in WaitsFor(p, NumConns)

\* The store's deadlock detector aborts a transaction of a wait cycle
\* (SQLSTATE 40P01); the statement returns the error.
DeadlockAbort(p) ==
    /\ Deadlocked(p)
    /\ RepoFail(p, ErrAt(pc[p]), "40P01")
    /\ UNCHANGED <<dbVars, nextVoteId, req, adminVars, snapObs, issued, attempts, votedSince, unvotedSince, wrote, readObs>>

\* ------------------------------------------------------------ specification
InTx == {"add_insert", "add_fk", "add_trigger", "add_update", "add_commit",
         "rem_delete", "rem_trigger", "rem_update", "rem_commit",
         "del_votes", "del_trigger", "del_feature", "del_cascade", "del_commit"}

\* The history of a session stays empty outside SpecSession
NoRecord == UNCHANGED sessionVars

Next ==
    \E p \in Conns :
        \/ Start(p) /\ NoRecord
        \/ CheckFeatureExists(p) /\ NoRecord
        \/ CheckHasVoted(p) /\ NoRecord
        \/ AddVoteBegin(p) /\ NoRecord
        \/ AddVoteInsert(p) /\ NoRecord
        \/ AddVoteForeignKey(p) /\ NoRecord
        \/ AddVoteTrigger(p) /\ NoRecord
        \/ AddVoteUpdate(p) /\ NoRecord
        \/ AddVoteCommit(p) /\ NoRecord
        \/ RemoveVoteBegin(p) /\ NoRecord
        \/ RemoveVoteDelete(p) /\ NoRecord
        \/ RemoveVoteTrigger(p) /\ NoRecord
        \/ RemoveVoteUpdate(p) /\ NoRecord
        \/ RemoveVoteCommit(p) /\ NoRecord
        \/ GetUpdated(p) /\ NoRecord
        \/ DeleteGet(p) /\ NoRecord
        \/ DeleteVotes(p) /\ NoRecord
        \/ DeleteVotesTrigger(p) /\ NoRecord
        \/ DeleteFeatureRow(p) /\ NoRecord
        \/ DeleteCascade(p) /\ NoRecord
        \/ DeleteCommit(p) /\ NoRecord
        \/ GetByIDRow(p) /\ NoRecord
        \/ GetByIDHasUserVoted(p) /\ NoRecord
        \/ DeadlockAbort(p) /\ NoRecord

Spec == Init /\ [][Next]_vars

\* The next step of the handler that serves the request of connection p, or
\* of the store on its behalf
Step(p) ==
    \/ CheckFeatureExists(p) /\ NoRecord
    \/ CheckHasVoted(p) /\ NoRecord
    \/ AddVoteBegin(p) /\ NoRecord
    \/ AddVoteInsert(p) /\ NoRecord
    \/ AddVoteForeignKey(p) /\ NoRecord
    \/ AddVoteTrigger(p) /\ NoRecord
    \/ AddVoteUpdate(p) /\ NoRecord
    \/ AddVoteCommit(p) /\ NoRecord
    \/ RemoveVoteBegin(p) /\ NoRecord
    \/ RemoveVoteDelete(p) /\ NoRecord
    \/ RemoveVoteTrigger(p) /\ NoRecord
    \/ RemoveVoteUpdate(p) /\ NoRecord
    \/ RemoveVoteCommit(p) /\ NoRecord
    \/ GetUpdated(p) /\ NoRecord
    \/ DeleteGet(p) /\ NoRecord
    \/ DeleteVotes(p) /\ NoRecord
    \/ DeleteVotesTrigger(p) /\ NoRecord
    \/ DeleteFeatureRow(p) /\ NoRecord
    \/ DeleteCascade(p) /\ NoRecord
    \/ DeleteCommit(p) /\ NoRecord
    \/ GetByIDRow(p) /\ NoRecord
    \/ GetByIDHasUserVoted(p) /\ NoRecord
    \/ DeadlockAbort(p) /\ NoRecord

\* Each handler runs in its own goroutine on its own connection and the
\* store runs each backend: a request whose next step stays possible takes
\* it.  Requests arrive when they will (no fairness on Start).
SpecFair == Spec /\ \A p \in Conns : WF_vars(Step(p))

\* A statement or the commit of an open transaction fails or is abandoned
\* (lost connection, cancelled request): the deferred tx.Rollback() runs.
TxAbandon(p) ==
    /\ pc[p] \in InTx
    /\ RepoFail(p, ErrAt(pc[p]), "08006")
    /\ UNCHANGED <<dbVars, nextVoteId, req, adminVars, snapObs, issued, attempts, votedSince, unvotedSince, wrote, readObs>>

\* The GetByID that follows a committed AddVote / RemoveVote fails (lost
\* connection): the handler answers 500 "Failed to get updated feature".
GetUpdatedFails(p) ==
    /\ pc[p] = "get_updated"
    /\ pc' = [pc EXCEPT ![p] = "done"]
    /\ resp' = [resp EXCEPT ![p] = [NoResp EXCEPT !.status = StatusInternalServerError,
                                                  !.err = "failed to get feature by ID",
                                                  !.sqlstate = "08006"]]
    /\ UNCHANGED <<dbVars, nextVoteId, req, adminVars, snapObs, tx, issued, attempts, votedSince,
                   unvotedSince, wrote, readObs>>

NextAbandon ==
    \/ Next
    \/ \E p \in Conns : TxAbandon(p) /\ NoRecord
    \/ \E p \in Conns : GetUpdatedFails(p) /\ NoRecord

SpecAbandon == Init /\ [][NextAbandon]_vars

\* a DEFAULT that counts the creator
NewFeatureRowCounted(u) == [vote_count |-> 1, created_by |-> u]

\* the features row of INSERT INTO features (title, description, created_by):
\* vote_count INTEGER DEFAULT 0 NOT NULL
NewFeatureRow(u) == [vote_count |-> 0, created_by |-> u]

\* --------------------------------------------------------------------- admin
\* FeatureHandler.CreateFeature: the request arrives and Create runs
\* INSERT INTO features (title, description, created_by) ... RETURNING id;
\* vote_count takes its DEFAULT 0.  created_by REFERENCES users(id).
CreateInsert(p) ==
    /\ pc[p] \in {"idle", "done"}
    /\ issued < MaxRequests
    /\ nextFeatureId <= NumFeatures + NumCreated
    /\ \E u \in Users :
          /\ req' = [req EXCEPT ![p] = [op |-> "create", user |-> u,
                                        feature |-> nextFeatureId]]
          /\ IF u \notin users
                THEN /\ pc' = [pc EXCEPT ![p] = "done"]
                     /\ resp' = [resp EXCEPT ![p] =
                                   [NoResp EXCEPT !.status = StatusInternalServerError,
                                                  !.err = "failed to create feature",
                                                  !.sqlstate = "23503"]]
                     /\ UNCHANGED <<features, vote_count, featVer, created_by, title,
                                    description>>
                ELSE /\ pc' = [pc EXCEPT ![p] = "create_get"]
                     /\ resp' = [resp EXCEPT ![p] = NoResp]
                     /\ features' = features \cup {nextFeatureId}
                     /\ vote_count' = (nextFeatureId :> NewFeatureRow(u).vote_count) @@ vote_count
                     /\ featVer' = (nextFeatureId :> 0) @@ featVer
                     /\ created_by' = (nextFeatureId :> NewFeatureRow(u).created_by) @@ created_by
                     /\ title' = (nextFeatureId :> "t0") @@ title
                     /\ description' = (nextFeatureId :> "d0") @@ description
    /\ nextFeatureId' = nextFeatureId + 1
    /\ issued' = issued + 1
    /\ attempts' = [attempts EXCEPT ![p] = 0]
    /\ votedSince' = [votedSince EXCEPT ![p] = FALSE]
    /\ unvotedSince' = [unvotedSince EXCEPT ![p] = TRUE]
    /\ wrote' = [wrote EXCEPT ![p] = FALSE]
    /\ readObs' = [readObs EXCEPT ![p] = {}]
    /\ UNCHANGED <<votes, nextVoteId, tx, users, migrated, fixSnapshot, snapObs, updReq>>

\* h.featureRepo.GetByID(feature.ID, &userID) of CreateFeature, and the 201
CreateGet(p) ==
    /\ pc[p] = "create_get"
    /\ IF req[p].feature \notin features
          THEN Respond(p, StatusInternalServerError, "feature not found", 0)
          ELSE /\ pc' = [pc EXCEPT ![p] = "done"]
               /\ resp' = [resp EXCEPT ![p] =
                             [NoResp EXCEPT !.status = StatusCreated,
                                            !.vote_count = vote_count[req[p].feature],
                                            !.has_user_voted =
                                                HasUserVoted(req[p].user, req[p].feature)]]
    /\ UNCHANGED <<dbVars, nextVoteId, req, adminVars, snapObs, tx, issued, attempts, votedSince,
                   unvotedSince, wrote, readObs>>

\* a votes.user_id without ON DELETE CASCADE
CascadedVotesOfFeatures(u) ==
    {r \in votes : r.feature_id \in {f \in features : created_by[f] = u}}

\* votes.user_id and votes.feature_id ON DELETE CASCADE, features.created_by
\* ON DELETE CASCADE: the vote rows that go with the users row
CascadedVotes(u) ==
    {r \in votes : r.user_id = u \/ r.feature_id \in {f \in features : created_by[f] = u}}

\* a cascade that fires no trigger
CascadeDecrementNone(rows, f) == 0

\* trigger vote_count_decrement, FOR EACH ROW of the vote rows removed:
\* UPDATE features SET vote_count = vote_count - 1 WHERE id = OLD.feature_id
CascadeDecrement(rows, f) == Cardinality({r \in rows : r.feature_id = f})

\* UserRepository.Delete: DELETE FROM users WHERE id = $1, one statement
\* that commits by itself.  ON DELETE CASCADE removes the user's features
\* with their votes and the user's votes; trigger vote_count_decrement runs
\* for every vote row removed.  The statement waits for the row locks of
\* open transactions.
DeleteUser(u) ==
    LET gone == {f \in features : created_by[f] = u}
        rows == CascadedVotes(u)
        ids == {r.id : r \in rows}
        touched == gone \cup {r.feature_id : r \in rows}
        waitsFor == {q \in Conns :
                       \/ tx[q].keyShare /\ req[q].user = u
                       \/ tx[q].del \cap ids # {}
                       \/ req[q].feature \in gone /\ tx[q].keyShare
                       \/ req[q].feature \in touched /\ (tx[q].upd \/ tx[q].delFeat)}
    IN /\ u \in users
       /\ issued < MaxRequests
       /\ issued' = issued + 1
       /\ waitsFor = {}
       /\ users' = users \ {u}
       /\ features' = features \ gone
       /\ votes' = votes \ rows
       /\ vote_count' = [f \in DOMAIN vote_count |->
                            IF f \in gone THEN 0
                            ELSE vote_count[f] - CascadeDecrement(rows, f)]
       /\ featVer' = [f \in DOMAIN featVer |->
                         IF f \in touched THEN featVer[f] + 1 ELSE featVer[f]]
       /\ votedSince' = [q \in Conns |->
                            votedSince[q] /\ VoteRows(req[q].user, req[q].feature) \cap rows = {}]
       /\ Visible
       /\ UNCHANGED <<nextVoteId, pc, req, tx, resp, attempts, unvotedSince, wrote,
                      created_by, nextFeatureId, migrated, fixSnapshot, snapObs,
                      title, description, updReq>>

\* migration fix_vote_counts, applied once by sql-migrate in a READ COMMITTED
\* transaction: the UPDATE takes its snapshot when it starts
FixVoteCountsBegin ==
    /\ ~migrated
    /\ ~fixSnapshot.taken
    /\ issued < MaxRequests
    /\ issued' = issued + 1
    /\ fixSnapshot' = [taken |-> TRUE, features |-> features, votes |-> votes]
    /\ UNCHANGED <<dbVars, nextVoteId, pc, req, tx, resp, attempts, votedSince,
                   unvotedSince, wrote, readObs, users, created_by, nextFeatureId,
                   migrated, snapObs, title, description, updReq>>

\* SELECT COUNT(*) FROM votes WHERE votes.feature_id = features.id, evaluated
\* in the snapshot of the statement
FixVoteCountsCount(f) ==
    Cardinality({r \in fixSnapshot.votes : r.feature_id = f})

\* UPDATE features SET vote_count = (SELECT COUNT(*) ...): the statement
\* waits for the row locks of open transactions, then writes the latest
\* version of each row of its snapshot that still exists, and the migration
\* commits
FixVoteCounts ==
    LET rows == fixSnapshot.features \cap features
    IN /\ fixSnapshot.taken
       /\ \A q \in Conns : ~(req[q].feature \in rows /\ (tx[q].upd \/ tx[q].delFeat))
       /\ migrated' = TRUE
       /\ fixSnapshot' = NoSnapshot
       /\ vote_count' = [f \in DOMAIN vote_count |->
                            IF f \in rows THEN FixVoteCountsCount(f) ELSE vote_count[f]]
       /\ featVer' = [f \in DOMAIN featVer |->
                         IF f \in rows THEN featVer[f] + 1 ELSE featVer[f]]
       /\ UNCHANGED <<features, votes, nextVoteId, pc, req, tx, resp, issued, attempts,
                      votedSince, unvotedSince, wrote, users, created_by, nextFeatureId,
                      snapObs, title, description, updReq>>
       /\ Visible

NextAdmin ==
    \/ Next
    \/ \E p \in Conns : CreateInsert(p) /\ NoRecord
    \/ \E p \in Conns : CreateGet(p) /\ NoRecord
    \/ \E u \in Users : DeleteUser(u) /\ NoRecord
    \/ FixVoteCountsBegin /\ NoRecord
    \/ FixVoteCounts /\ NoRecord

SpecAdmin == Init /\ [][NextAdmin]_vars

\* -------------------------------------------------------------------- update
\* the titles and descriptions that update requests carry
Titles == {"t1"}

Descriptions == {"d1"}

\* A PUT /features/:id arrives on an idle connection; each field of the body
\* may be absent.
UpdateStart(p) ==
    /\ pc[p] \in {"idle", "done"}
    /\ issued < MaxRequests
    /\ \E u \in Users, f \in Features \cup features :
          req' = [req EXCEPT ![p] = [op |-> "update", user |-> u, feature |-> f]]
    /\ \E t \in Titles \cup {Nil}, d \in Descriptions \cup {Nil} :
          updReq' = [updReq EXCEPT ![p] = [title |-> t, description |-> d]]
    /\ pc' = [pc EXCEPT ![p] = "upd_get"]
    /\ resp' = [resp EXCEPT ![p] = NoResp]
    /\ issued' = issued + 1
    /\ attempts' = [attempts EXCEPT ![p] = 0]
    /\ votedSince' = [votedSince EXCEPT ![p] = VoteRows(req'[p].user, req'[p].feature) # {}]
    /\ unvotedSince' = [unvotedSince EXCEPT ![p] = VoteRows(req'[p].user, req'[p].feature) = {}]
    /\ wrote' = [wrote EXCEPT ![p] = FALSE]
    /\ readObs' = [readObs EXCEPT ![p] = {}]
    /\ UNCHANGED <<dbVars, nextVoteId, tx, users, created_by, nextFeatureId, migrated,
                   fixSnapshot, title, description, snapObs>>

\* h.featureRepo.GetByID(id, nil) of UpdateFeature and the creator test
UpdateGet(p) ==
    /\ pc[p] = "upd_get"
    /\ IF req[p].feature \notin features
          THEN Respond(p, StatusNotFound, "Feature not found", 0)
          ELSE IF CreatedBy(req[p].feature) # req[p].user
          THEN Respond(p, StatusForbidden, "You can only update your own features", 0)
          ELSE /\ pc' = [pc EXCEPT ![p] = "upd_exec"]
               /\ UNCHANGED resp
    /\ UNCHANGED <<dbVars, nextVoteId, req, adminVars, snapObs, tx, issued, attempts,
                   votedSince, unvotedSince, wrote, readObs>>

\* an UPDATE that also resets the counter
UpdatedRowResetCount(f, body) ==
    [title |-> IF body.title = Nil THEN title[f] ELSE body.title,
     description |-> IF body.description = Nil THEN description[f] ELSE body.description,
     vote_count |-> 0]

\* UPDATE features SET title = $1, description = $2 WHERE id = $3, with the
\* SET parts of the fields that are not nil: the row after the statement
UpdatedRow(f, body) ==
    [title |-> IF body.title = Nil THEN title[f] ELSE body.title,
     description |-> IF body.description = Nil THEN description[f] ELSE body.description,
     vote_count |-> vote_count[f]]

\* FeatureRepository.Update, one statement that commits by itself, and the
\* handler's answer to its error.  The statement waits for the row lock of
\* an open transaction; every update writes a new version of the row
\* (trigger update_features_updated_at sets updated_at).
UpdateExec(p) ==
    LET f == req[p].feature
        body == updReq[p]
    IN /\ pc[p] = "upd_exec"
       /\ IF body = NoBody
             THEN /\ pc' = [pc EXCEPT ![p] = "done"]
                  /\ resp' = [resp EXCEPT ![p] =
                                [NoResp EXCEPT !.status = StatusInternalServerError,
                                               !.err = "no fields to update"]]
                  /\ UNCHANGED <<vote_count, featVer, title, description, wrote>>
             ELSE /\ \A q \in Others(p) :
                        ~(req[q].feature = f /\ (tx[q].upd \/ tx[q].delFeat))
                  /\ IF f \notin features
                        THEN /\ pc' = [pc EXCEPT ![p] = "done"]
                             /\ resp' = [resp EXCEPT ![p] =
                                           [NoResp EXCEPT !.status = StatusInternalServerError,
                                                          !.err = "feature not found"]]
                             /\ UNCHANGED <<vote_count, featVer, title, description, wrote>>
                        ELSE /\ title' = [title EXCEPT ![f] = UpdatedRow(f, body).title]
                             /\ description' = [description EXCEPT ![f] =
                                                   UpdatedRow(f, body).description]
                             /\ vote_count' = [vote_count EXCEPT ![f] =
                                                  UpdatedRow(f, body).vote_count]
                             /\ featVer' = [featVer EXCEPT ![f] = @ + 1]
                             /\ wrote' = [wrote EXCEPT ![p] = TRUE]
                             /\ pc' = [pc EXCEPT ![p] = "upd_read"]
                             /\ UNCHANGED resp
       /\ UNCHANGED <<features, votes, nextVoteId, req, tx, issued, attempts, votedSince,
                      unvotedSince, readObs, users, created_by, nextFeatureId, migrated,
                      fixSnapshot, updReq, snapObs>>

\* r.db.Exec of Update fails (lost connection): no row is written
UpdateExecFails(p) ==
    /\ pc[p] = "upd_exec"
    /\ updReq[p] # NoBody
    /\ pc' = [pc EXCEPT ![p] = "done"]
    /\ resp' = [resp EXCEPT ![p] = [NoResp EXCEPT !.status = StatusInternalServerError,
                                                  !.err = "failed to update feature",
                                                  !.sqlstate = "08006"]]
    /\ UNCHANGED <<dbVars, nextVoteId, req, adminVars, snapObs, tx, issued, attempts,
                   votedSince, unvotedSince, wrote, readObs>>

\* h.featureRepo.GetByID(id, &userID) after the update, and the 200
UpdateRead(p) ==
    /\ pc[p] = "upd_read"
    /\ IF req[p].feature \notin features
          THEN /\ pc' = [pc EXCEPT ![p] = "done"]
               /\ resp' = [resp EXCEPT ![p] =
                             [NoResp EXCEPT !.status = StatusInternalServerError,
                                            !.err = "Failed to get updated feature"]]
          ELSE /\ pc' = [pc EXCEPT ![p] = "done"]
               /\ resp' = [resp EXCEPT ![p] =
                             [NoResp EXCEPT !.status = StatusOK,
                                            !.vote_count = vote_count[req[p].feature],
                                            !.has_user_voted =
                                                HasUserVoted(req[p].user, req[p].feature)]]
    /\ UNCHANGED <<dbVars, nextVoteId, req, adminVars, snapObs, tx, issued, attempts,
                   votedSince, unvotedSince, wrote, readObs>>

NextUpdate ==
    \/ Next
    \/ \E p \in Conns : UpdateStart(p) /\ NoRecord
    \/ \E p \in Conns : UpdateGet(p) /\ NoRecord
    \/ \E p \in Conns : UpdateExec(p) /\ NoRecord
    \/ \E p \in Conns : UpdateExecFails(p) /\ NoRecord
    \/ \E p \in Conns : UpdateRead(p) /\ NoRecord

SpecUpdate == Init /\ [][NextUpdate]_vars

\* ------------------------------------------------------------------- session
\* One client that sends its requests one after the other on connection 1,
\* with nothing else running.  The session records what the store showed
\* when each request arrived and what it shows when the request is answered.
Client == 1

Entry(p) == [op |-> req[p].op, user |-> req[p].user, feature |-> req[p].feature,
             status |-> resp[p].status, vote_count |-> resp[p].vote_count,
             has_user_voted |-> resp[p].has_user_voted,
             before |-> seen, after |-> Obs(req[p].user, req[p].feature)]

Record(p) ==
    /\ seen' = IF issued' # issued THEN Obs(req'[p].user, req'[p].feature) ELSE seen
    /\ log' = IF pc'[p] = "done" /\ pc[p] # "done" THEN Append(log, Entry(p)') ELSE log

NextSession ==
    \/ Start(Client) /\ Record(Client)
    \/ CheckFeatureExists(Client) /\ Record(Client)
    \/ CheckHasVoted(Client) /\ Record(Client)
    \/ AddVoteBegin(Client) /\ Record(Client)
    \/ AddVoteInsert(Client) /\ Record(Client)
    \/ AddVoteForeignKey(Client) /\ Record(Client)
    \/ AddVoteTrigger(Client) /\ Record(Client)
    \/ AddVoteUpdate(Client) /\ Record(Client)
    \/ AddVoteCommit(Client) /\ Record(Client)
    \/ RemoveVoteBegin(Client) /\ Record(Client)
    \/ RemoveVoteDelete(Client) /\ Record(Client)
    \/ RemoveVoteTrigger(Client) /\ Record(Client)
    \/ RemoveVoteUpdate(Client) /\ Record(Client)
    \/ RemoveVoteCommit(Client) /\ Record(Client)
    \/ GetUpdated(Client) /\ Record(Client)
    \/ DeleteGet(Client) /\ Record(Client)
    \/ DeleteVotes(Client) /\ Record(Client)
    \/ DeleteVotesTrigger(Client) /\ Record(Client)
    \/ DeleteFeatureRow(Client) /\ Record(Client)
    \/ DeleteCascade(Client) /\ Record(Client)
    \/ DeleteCommit(Client) /\ Record(Client)
    \/ GetByIDRow(Client) /\ Record(Client)
    \/ GetByIDHasUserVoted(Client) /\ Record(Client)

SpecSession == Init /\ [][NextSession]_vars

\* ===================================================================== claims
AllDone == \A p \in Conns : pc[p] = "done"

\* the set of connections whose request is op o for the pair (u, f)
Serving(o, u, f) == {p \in Conns : req[p] = [op |-> o, user |-> u, feature |-> f]}

\* C1: in every committed state, every existing feature's vote_count equals
\* the number of vote rows whose feature_id is that feature.
C1_CountEqualsVoteRows ==
    \A f \in features : vote_count[f] = Cardinality(FeatureVotes(f))

\* C2: when NumConns distinct users each issue one addVote against the same
\* feature, every call succeeds and the final vote_count is the number of calls.
C2_ConcurrentVotesAllSucceed ==
    \A f \in Features :
        (/\ issued = NumConns
         /\ AllDone
         /\ \A p \in Conns : req[p].op = "vote" /\ req[p].feature = f
         /\ \A p, q \in Conns : p # q => req[p].user # req[q].user)
        => /\ \A p \in Conns : resp[p].status = StatusOK
           /\ vote_count[f] = NumConns

\* C7: each committed addVote raises the stored vote_count by exactly 1 and
\* each committed removeVote lowers it by exactly 1.
C7_CommitChangesCountByOne ==
    [][\A p \in Conns :
          /\ (pc[p] = "add_commit" /\ pc'[p] = "get_updated")
                => vote_count'[req[p].feature] = vote_count[req[p].feature] + 1
          /\ (pc[p] = "rem_commit" /\ pc'[p] = "get_updated")
                => vote_count'[req[p].feature] = vote_count[req[p].feature] - 1]_vars

\* C3: in every committed state there is at most one vote row for each
\* (user, feature) pair.
C3_OneVoteRowPerPair ==
    \A u \in Users, f \in Features : Cardinality(VoteRows(u, f)) <= 1

\* a second insert for a pair was rejected by the unique constraint while the
\* first one's row is committed
C3_Witness ==
    \E p \in Conns :
        /\ resp[p].sqlstate = "23505"
        /\ VoteRows(req[p].user, req[p].feature) # {}

\* C4: of two addVote requests for the same pair, at most one reports success
\* and the other is reported as AlreadyVoted (409), never as a second success
\* and never as an internal failure.
C4_SecondVoteIsAlreadyVoted ==
    \A u \in Users, f \in Features :
        (/\ issued = 2
         /\ AllDone
         /\ Cardinality(Serving("vote", u, f)) = 2)
        => \E p, q \in Conns :
              /\ p # q
              /\ resp[p].status = StatusOK
              /\ resp[q].status = StatusConflict

\* C5: a vote request of a user whose vote row for the feature is committed,
\* with no removal of that row since, answers AlreadyVoted (409) and never
\* opens a write transaction (no vote row, no change of vote_count).
C5_VotedPairIsRejected ==
    \A p \in Conns :
        (req[p].op = "vote" /\ votedSince[p])
        => /\ pc[p] \in {"exists", "has_voted", "done"}
           /\ pc[p] = "done" => resp[p].status = StatusConflict

\* a vote request has been answered 409 for a pair voted all along
C5_Witness ==
    \E p \in Conns :
        /\ req[p].op = "vote"
        /\ votedSince[p]
        /\ pc[p] = "done"
        /\ resp[p].status = StatusConflict
        /\ vote_count[req[p].feature] > 0

\* C6: the vote-row change and the counter change of an addVote or removeVote
\* become visible together or not at all, whatever step fails or is abandoned:
\* for a feature that stays, vote rows appear exactly when the count rises
\* and disappear exactly when it falls.
C6_RowAndCountChangeTogether ==
    [][\A f \in features \cap features' :
          LET before == {r.id : r \in FeatureVotes(f)}
              after == {r.id : r \in FeatureVotes(f)'}
          IN /\ (after \ before # {}) <=> (vote_count'[f] > vote_count[f])
             /\ (before \ after # {}) <=> (vote_count'[f] < vote_count[f])]_vars

\* a transaction was abandoned after its vote-row statement and before its
\* commit, and nothing of it is visible
C6_Witness ==
    \E p \in Conns :
        /\ resp[p].sqlstate = "08006"
        /\ resp[p].err = "failed to update vote count"
        /\ req[p].op \in {"vote", "unvote"}
        /\ FeatureVotes(req[p].feature) = {}
        /\ vote_count[req[p].feature] = 0

\* C8: two toggleVote requests for the same pair that both observe "not
\* voted" (so that the pair ends voted) insert exactly one row, raise the
\* count by exactly one, and the rejected one is answered with a conflict.
C8_ConcurrentTogglesConflict ==
    \A u \in Users, f \in Features :
        (/\ issued = 2
         /\ AllDone
         /\ Cardinality(Serving("toggle", u, f)) = 2
         /\ VoteRows(u, f) # {})
        => /\ Cardinality(VoteRows(u, f)) = 1
           /\ vote_count[f] = 1
           /\ \E p, q \in Conns :
                 /\ p # q
                 /\ resp[p].status = StatusOK
                 /\ resp[q].status = StatusConflict

\* C9: toggleVote acts on the vote state it has read: it never attempts an
\* insert for a pair that is voted nor a delete for a pair that is not, and
\* has no failure outcome other than FeatureNotFound.
C9_ToggleReadThenActAtomic ==
    \A p \in Conns :
        req[p].op = "toggle" =>
           /\ pc[p] \in {"add_begin", "add_insert"}
                 => ~HasUserVoted(req[p].user, req[p].feature)
           /\ pc[p] \in {"rem_begin", "rem_delete"}
                 => HasUserVoted(req[p].user, req[p].feature)
           /\ pc[p] = "done" => resp[p].status \in {StatusOK, StatusNotFound}

\* C10: an addVote that fails because its feature was deleted meanwhile is
\* answered FeatureNotFound (404) or with a conflict (409), and no committed
\* vote row references a deleted feature.
C10_VoteOnDeletedFeatureFailsCleanly ==
    /\ \A r \in votes : r.feature_id \in features
    /\ \A p \in Conns :
          (/\ req[p].op = "vote"
           /\ pc[p] = "done"
           /\ req[p].feature \notin features
           /\ resp[p].status # StatusOK)
          => resp[p].status \in {StatusNotFound, StatusConflict}

\* C11: a deleted feature has no vote row left: once a DeleteFeature has
\* answered 200 its feature is gone, and for every feature that is gone no
\* vote row references it and HasUserVoted is false for each of its pairs.
C11_DeleteRemovesAllVotes ==
    /\ \A p \in Conns :
          (req[p].op = "delete" /\ pc[p] = "done" /\ resp[p].status = StatusOK)
          => req[p].feature \notin features
    /\ \A f \in Features \ features :
          /\ FeatureVotes(f) = {}
          /\ \A u \in Users : ~HasUserVoted(u, f)

\* a feature that every user had voted for has been deleted
C11_Witness ==
    \E p \in Conns :
        /\ req[p].op = "delete"
        /\ pc[p] = "done"
        /\ resp[p].status = StatusOK
        /\ resp[p].removed = NumUsers
        /\ FeatureVotes(req[p].feature) = {}

\* C12: Delete removes the vote rows and the feature row in one transaction:
\* a step of a DeleteFeature request either changes no committed row, or it is
\* the commit that answers 200 and leaves neither the feature nor a vote row
\* of it; a Delete that fails removes nothing.
C12_DeleteIsAtomic ==
    [][\A p \in Conns :
          (req[p].op = "delete" /\ pc[p] \notin {"idle", "done"} /\ pc'[p] # pc[p])
          => \/ votes' = votes /\ features' = features /\ vote_count' = vote_count
             \/ /\ pc'[p] = "done"
                /\ resp'[p].status = StatusOK
                /\ req[p].feature \notin features'
                /\ FeatureVotes(req[p].feature)' = {}]_vars

\* a Delete failed at its second statement, after the statement that deletes
\* the vote rows, and the vote rows and the feature are still there
C12_Witness ==
    \E p \in Conns :
        /\ req[p].op = "delete"
        /\ pc[p] = "done"
        /\ resp[p].err = "failed to delete feature"
        /\ req[p].feature \in features
        /\ FeatureVotes(req[p].feature) # {}

\* C13: a vote, unvote or toggle request ends on a serialization failure
\* (SQLSTATE 40001) of AddVote / RemoveVote only after the transaction has
\* been run more than once, and the failure is then answered as a conflict.
C13_SerializationFailureIsRetried ==
    \A p \in Conns :
        (/\ pc[p] = "done"
         /\ req[p].op \in {"vote", "unvote", "toggle"}
         /\ resp[p].sqlstate = "40001")
        => /\ attempts[p] > 1
           /\ resp[p].status = StatusConflict

\* two requests that follow each other in the session, for one pair
Consecutive(i, o1, o2) ==
    /\ log[i].op = o1
    /\ log[i + 1].op = o2
    /\ log[i].user = log[i + 1].user
    /\ log[i].feature = log[i + 1].feature

\* C14: two ToggleVote requests for one pair of an existing feature, one
\* after the other with nothing in between, both succeed; the first flips
\* the pair's voted state, and after the second the pair's voted state and
\* the feature's vote_count are what they were before the first.
C14_ToggleTwiceRestores ==
    \A i \in 1..(Len(log) - 1) :
        (Consecutive(i, "toggle", "toggle") /\ log[i].before.exists)
        => /\ log[i].status = StatusOK
           /\ log[i + 1].status = StatusOK
           /\ log[i].after.voted # log[i].before.voted
           /\ log[i + 1].after.voted = log[i].before.voted
           /\ log[i + 1].after.count = log[i].before.count

\* three toggles in a row: the first pair starts from "not voted", the
\* second pair from "voted"
C14_Witness ==
    /\ Len(log) = 3
    /\ Consecutive(1, "toggle", "toggle")
    /\ Consecutive(2, "toggle", "toggle")
    /\ ~log[1].before.voted
    /\ log[2].before.voted
    /\ log[3].after.voted

\* the session so far is the start of: a votes, b votes, a unvotes, a votes,
\* all for feature f
VotesUnvotesVotes(a, b, f) ==
    LET ops == <<"vote", "vote", "unvote", "vote">>
        voters == <<a, b, a, a>>
    IN /\ Len(log) \in 1..4
       /\ \A i \in 1..Len(log) :
             /\ log[i].op = ops[i]
             /\ log[i].user = voters[i]
             /\ log[i].feature = f

\* C15: a vote that follows the same user's successful unvote of the pair
\* succeeds and leaves the pair voted; and in the session "a votes, b votes,
\* a unvotes, a votes" on a feature without votes every request succeeds
\* and the reported counts are 1, 2, 1, 2.
C15_VoteAgainAfterUnvote ==
    /\ \A i \in 1..(Len(log) - 1) :
          (Consecutive(i, "unvote", "vote") /\ log[i].status = StatusOK)
          => /\ log[i + 1].status = StatusOK
             /\ log[i + 1].after.voted
    /\ \A a, b \in Users, f \in Features :
          (a # b /\ VotesUnvotesVotes(a, b, f))
          => \A i \in 1..Len(log) :
                /\ log[i].status = StatusOK
                /\ log[i].vote_count = <<1, 2, 1, 2>>[i]

\* C16: an unvote request of a user who had no committed vote row for the
\* feature when the request arrived, with no insert of one since, calls
\* RemoveVote at most once, never deletes a vote row nor updates vote_count,
\* and is answered 404: "vote not found", or "Feature not found" when the
\* feature is gone.
C16_UnvoteWithoutVoteIsNotFound ==
    \A p \in Conns :
        (req[p].op = "unvote" /\ unvotedSince[p])
        => /\ pc[p] \in {"exists", "rem_begin", "rem_delete", "done"}
           /\ attempts[p] <= 1
           /\ tx[p].del = {}
           /\ ~tx[p].upd
           /\ pc[p] = "done"
                 => /\ resp[p].status = StatusNotFound
                    /\ \/ resp[p].err = "vote not found"
                       \/ resp[p].err = "Feature not found" /\ req[p].feature \notin features

\* RemoveVote has been called once for a pair without a vote row and the
\* request answered 404, while the other votes of the feature are in place
C16_Witness ==
    \E p \in Conns :
        /\ req[p].op = "unvote"
        /\ unvotedSince[p]
        /\ pc[p] = "done"
        /\ attempts[p] = 1
        /\ resp[p].status = StatusNotFound
        /\ resp[p].err = "vote not found"
        /\ FeatureVotes(req[p].feature) # {}

VoteOps == {"vote", "unvote", "toggle"}

\* C17: a vote, unvote or toggle request starts with the existence check of
\* its feature, and when the feature does not exist that check ends the
\* request with 404 "Feature not found": no transaction is opened and no
\* row of votes or features changes.
C17_MissingFeatureIsNotFound ==
    [][\A p \in Conns :
          /\ (pc'[p] # pc[p] /\ pc[p] \in {"idle", "done"} /\ req'[p].op \in VoteOps)
                => pc'[p] = "exists"
          /\ (/\ pc'[p] # pc[p]
              /\ pc[p] = "exists"
              /\ req[p].feature \notin features)
                => /\ pc'[p] = "done"
                   /\ resp'[p].status = StatusNotFound
                   /\ resp'[p].err = "Feature not found"
                   /\ tx'[p] = NoTx
                   /\ attempts'[p] = 0
                   /\ dbVars' = dbVars]_vars

\* two requests of different kinds for a deleted feature have been answered
\* "Feature not found"
C17_Witness ==
    \E p, q \in Conns :
        /\ req[p].op \in VoteOps
        /\ req[q].op \in VoteOps \ {req[p].op}
        /\ \A c \in {p, q} :
              /\ pc[c] = "done"
              /\ req[c].feature \notin features
              /\ resp[c].status = StatusNotFound
              /\ resp[c].err = "Feature not found"
              /\ attempts[c] = 0

\* the connections that serve a DeleteFeature request of a user who did not
\* create the feature
NotOwner == {p \in Conns : req[p].op = "delete" /\ req[p].user # CreatedBy(req[p].feature)}

\* C18: a DeleteFeature request of a user who is not the feature's creator
\* never calls Delete and changes no row; it is answered 403 (404 when the
\* feature is gone); and a feature row disappears only in the commit of a
\* DeleteFeature request of its creator.
C18_OnlyCreatorDeletes ==
    /\ [](\A p \in NotOwner :
             /\ pc[p] \in {"del_get", "done"}
             /\ tx[p] = NoTx
             /\ pc[p] = "done"
                   => \/ resp[p].status = StatusForbidden
                      \/ resp[p].status = StatusNotFound /\ req[p].feature \notin features)
    /\ [][/\ \A p \in NotOwner : (pc[p] = "del_get" /\ pc'[p] # pc[p]) => dbVars' = dbVars
          /\ \A f \in features \ features' :
                \E p \in Conns :
                    /\ req[p] = [op |-> "delete", user |-> CreatedBy(f), feature |-> f]
                    /\ pc[p] = "del_commit"
                    /\ pc'[p] = "done"]_vars

\* a user who is not the creator has been answered 403, and the feature and
\* its votes are in place
C18_Witness ==
    \E p \in NotOwner :
        /\ pc[p] = "done"
        /\ resp[p].status = StatusForbidden
        /\ req[p].feature \in features
        /\ Cardinality(FeatureVotes(req[p].feature)) = NumUsers

\* C19: a deleted feature stays deleted and never gets a vote row again:
\* HasUserVoted stays false for each of its pairs, and a vote or toggle
\* request that arrives for it goes to the existence check and ends there
\* with 404.
C19_DeletedFeatureStaysUnvoted ==
    [][\A f \in Features \ features :
          /\ f \notin features'
          /\ FeatureVotes(f)' = {}
          /\ \A u \in Users : ~HasUserVoted(u, f)'
          /\ \A p \in Conns :
                (/\ pc'[p] # pc[p]
                 /\ pc[p] \in {"idle", "done", "exists"}
                 /\ req'[p].feature = f
                 /\ req'[p].op \in {"vote", "toggle"})
                => \/ pc[p] # "exists" /\ pc'[p] = "exists"
                   \/ /\ pc[p] = "exists"
                      /\ pc'[p] = "done"
                      /\ resp'[p].status = StatusNotFound
                      /\ resp'[p].err = "Feature not found"]_vars

\* a feature that had votes was deleted, and a vote or toggle request for it
\* has been answered 404 since
C19_Witness ==
    \E p, q \in Conns :
        /\ req[p].op = "delete"
        /\ pc[p] = "done"
        /\ resp[p].status = StatusOK
        /\ resp[p].removed > 0
        /\ req[q].op \in {"vote", "toggle"}
        /\ req[q].feature = req[p].feature
        /\ pc[q] = "done"
        /\ resp[q].status = StatusNotFound
        /\ FeatureVotes(req[q].feature) = {}

\* requests i, i + 1 and i + 2 of the session are a vote and an unvote that
\* both succeeded and a GetFeature, of one user for one feature
VoteUnvoteGet(i) ==
    /\ Consecutive(i, "vote", "unvote")
    /\ Consecutive(i + 1, "unvote", "get")
    /\ log[i].status = StatusOK
    /\ log[i + 1].status = StatusOK

\* C20: in a session, the GetFeature that follows a successful vote and a
\* successful unvote of the same user for the feature is answered 200 with
\* has_user_voted false, and the pair has no vote row.
C20_ReadAfterUnvoteIsNotVoted ==
    \A i \in 1..(Len(log) - 2) :
        VoteUnvoteGet(i)
        => /\ log[i + 2].status = StatusOK
           /\ ~log[i + 2].has_user_voted
           /\ ~log[i + 2].after.voted

\* the read after a vote and an unvote, of a feature that another user's
\* vote still counts for
C20_Witness ==
    \E i \in 1..(Len(log) - 2) :
        /\ VoteUnvoteGet(i)
        /\ log[i].after.voted
        /\ log[i + 2].status = StatusOK
        /\ log[i + 2].vote_count > 0

\* C21: every committed vote row references a features row and a users row
\* that exist, whatever features and users are created and deleted.
C21_VotesReferenceExistingRows ==
    \A r \in votes : r.feature_id \in features /\ r.user_id \in users

\* a user whose vote had been answered 200 has been deleted, and another
\* user's vote is still there
C21_Witness ==
    \E p \in Conns :
        /\ req[p].op = "vote"
        /\ resp[p].status = StatusOK
        /\ req[p].user \notin users
        /\ votes # {}

\* C22: right after the repair migration every feature's vote_count is the
\* number of its vote rows, whatever the counts were before.
C22_RepairRestoresCounts ==
    [][(~migrated /\ migrated') =>
           \A f \in features' : vote_count'[f] = Cardinality(FeatureVotes(f)')]_vars

\* C23: a feature that has just been created has vote_count 0 and no vote
\* rows.
C23_NewFeatureHasNoVotes ==
    [][\A f \in features' \ features :
           vote_count'[f] = 0 /\ FeatureVotes(f)' = {}]_vars

\* a feature was created and answered 201 with vote_count 0 while another
\* feature has votes
C23_Witness ==
    \E p \in Conns :
        /\ req[p].op = "create"
        /\ resp[p].status = StatusCreated
        /\ resp[p].vote_count = 0
        /\ req[p].feature \in features
        /\ FeatureVotes(req[p].feature) = {}
        /\ \E g \in features : FeatureVotes(g) # {} /\ vote_count[g] > 0

\* AddVote run alone on a store that shows o of its pair: the INSERT, trigger
\* vote_count_increment, the UPDATE
SerialAddVote(o) == [exists |-> o.exists, voted |-> TRUE, count |-> (o.count + 1) + 1]

\* RemoveVote run alone: the DELETE, trigger vote_count_decrement, the UPDATE
SerialRemoveVote(o) == [exists |-> o.exists, voted |-> FALSE, count |-> (o.count - 1) - 1]

\* C24: the committed AddVote / RemoveVote transactions are serializable in
\* the order of their commits: when one commits, the committed state of its
\* pair is still the one of its snapshot, the transaction could run alone on
\* it, and the state after the commit is the one that run would produce,
\* with every other vote row and count left as it was.
C24_VoteTransactionsAreSerializable ==
    [][\A p \in Conns :
          (pc[p] \in {"add_commit", "rem_commit"} /\ pc'[p] = "get_updated") =>
              LET u == req[p].user
                  f == req[p].feature
                  o == Obs(u, f)
              IN /\ o = snapObs[p]
                 /\ o.exists
                 /\ o.voted = (pc[p] = "rem_commit")
                 /\ Obs(u, f)' = IF pc[p] = "add_commit" THEN SerialAddVote(o)
                                                        ELSE SerialRemoveVote(o)
                 /\ \A v \in Users, g \in features :
                        <<v, g>> # <<u, f>> => (VoteRows(v, g)' = VoteRows(v, g))
                 /\ \A g \in features \ {f} : vote_count'[g] = vote_count[g]]_vars

\* two transactions on one feature overlapped: one committed and its request
\* was answered 200, the other ended on a serialization failure
C24_Witness ==
    \E p, q \in Conns :
        /\ p # q
        /\ req[p].feature = req[q].feature
        /\ req[p].op \in {"vote", "unvote", "toggle"}
        /\ req[q].op \in {"vote", "unvote", "toggle"}
        /\ resp[p].status = StatusOK
        /\ wrote[p]
        /\ resp[q].sqlstate = "40001"

\* C25: a vote, unvote or toggle request that is answered with an error has
\* committed nothing: the vote rows and the counts are those of a store the
\* request never touched.
C25_ErrorResponseChangesNothing ==
    \A p \in Conns :
        (/\ pc[p] = "done"
         /\ req[p].op \in {"vote", "unvote", "toggle"}
         /\ resp[p].status # StatusOK)
        => (~wrote[p] \/ req[p].feature \notin features)

\* C26: of two unvote requests for one pair whose transactions both start
\* while the pair's single vote row is committed, one is answered 200, the
\* other VoteNotFound (404), and vote_count ends one below what it was.
C26_SecondUnvoteIsVoteNotFound ==
    \A u \in Users, f \in Features :
        (/\ issued = 3
         /\ AllDone
         /\ Cardinality(Serving("unvote", u, f)) = 2
         /\ \A p \in Conns : snapObs[p].voted)
        => \E p, q \in Conns :
              /\ p # q
              /\ resp[p].status = StatusOK
              /\ resp[q].status = StatusNotFound
              /\ vote_count[f] = snapObs[p].count - 1

\* C27: no feature's vote_count is ever negative.
C27_VoteCountIsNeverNegative ==
    \A f \in features : vote_count[f] >= 0

C29_ReadPairIsOneCommittedState ==
    \A p \in Conns :
        (/\ pc[p] = "done"
         /\ req[p].op = "get"
         /\ resp[p].status = StatusOK)
        => \E o \in readObs[p] :
               /\ o.exists
               /\ o.count = resp[p].vote_count
               /\ o.voted = resp[p].has_user_voted

\* C30: of two delete requests of the owner for one feature, one is answered
\* 200 and the other FeatureNotFound (404), not another failure.
C30_SecondDeleteIsFeatureNotFound ==
    \A f \in Features :
        (/\ issued = 2
         /\ AllDone
         /\ Cardinality(Serving("delete", CreatedBy(f), f)) = 2)
        => \E p, q \in Conns :
              /\ p # q
              /\ resp[p].status = StatusOK
              /\ resp[q].status = StatusNotFound

\* C31: under fair scheduling every vote, unvote, toggle and delete request
\* that has arrived is eventually answered; no two transactions wait for
\* each other forever.
C31_EveryRequestCompletes ==
    \A p \in Conns :
        (pc[p] \notin {"idle", "done"} /\ req[p].op \in {"vote", "unvote", "toggle", "delete"})
            ~> (pc[p] = "done")

\* two transactions waited for each other and one of them was aborted by
\* the store, its request answered
C31_Witness ==
    \E p \in Conns :
        /\ pc[p] = "done"
        /\ resp[p].sqlstate = "40P01"
        /\ resp[p].status = StatusInternalServerError

\* the positions of a vote handler outside the request: before it, after it
Outside == {"idle", "done"}

\* the positions where a write transaction is opened
Mutation == {"add_begin", "rem_begin"}

\* the order of a vote handler up to the ledger read: the request starts
\* with the existence check, the ledger is read only after a check that found
\* the feature, and a check that does not find it ends the request with no
\* change of the store
ExistenceCheckFirst(p) ==
    /\ (pc[p] \in Outside /\ pc'[p] \notin Outside /\ req'[p].op \in {"vote", "unvote", "toggle"})
          => pc'[p] = "exists"
    /\ (pc'[p] = "has_voted" /\ pc[p] # "has_voted")
          => (pc[p] = "exists" /\ FeatureExists(req[p].feature))
    /\ (pc[p] = "exists" /\ ~FeatureExists(req[p].feature) /\ pc'[p] # "exists")
          => (pc'[p] = "done" /\ UNCHANGED <<dbVars, tx>>)

\* C32 as stated: every vote, unvote and toggle request checks that the
\* feature exists, then reads the caller's vote state from the ledger, and
\* only then opens the transaction that changes ledger and counter; a failed
\* existence check is followed by no ledger read and no mutation.
C32_ChecksThenReadThenMutation ==
    [][\A p \in Conns :
          /\ ExistenceCheckFirst(p)
          /\ (pc'[p] \in Mutation /\ pc[p] \notin Mutation) => pc[p] = "has_voted"]_vars

\* C32 amended: vote and toggle requests check existence, read the ledger
\* and then open the transaction; an unvote request opens the RemoveVote
\* transaction right after the existence check, with no ledger read before
\* it; a failed existence check is followed by no ledger read and no
\* mutation.
C32_ChecksThenMutation ==
    [][\A p \in Conns :
          /\ ExistenceCheckFirst(p)
          /\ (pc'[p] \in Mutation /\ pc[p] \notin Mutation) =>
                 IF req[p].op = "unvote"
                    THEN pc[p] = "exists" /\ FeatureExists(req[p].feature)
                    ELSE pc[p] = "has_voted"]_vars

\* an unvote has removed the caller's vote and was answered 200, a request
\* for a feature that is gone was answered 404 with nothing written
C32_Witness ==
    \E p, q \in Conns :
        /\ req[p].op = "unvote" /\ resp[p].status = StatusOK /\ wrote[p]
        /\ req[q].op \in {"vote", "unvote", "toggle"}
        /\ resp[q].status = StatusNotFound /\ resp[q].err = "Feature not found"
        /\ ~wrote[q]

\* the positions of the UpdateFeature handler
InUpdate == {"upd_get", "upd_exec", "upd_read"}

\* C33: no step of an update request changes a vote_count, a vote row, the
\* set of features or their creators; the update that succeeds writes the
\* title and the description of the request on its feature and on no other;
\* the update that fails leaves titles and descriptions as they were.
C33_UpdateChangesOnlyText ==
    [][\A p \in Conns :
          (pc[p] \in InUpdate /\ pc'[p] # pc[p]) =>
              LET f == req[p].feature IN
              /\ UNCHANGED <<vote_count, votes, features, created_by>>
              /\ \A g \in features \ {f} :
                     title'[g] = title[g] /\ description'[g] = description[g]
              /\ IF pc[p] = "upd_exec" /\ pc'[p] = "upd_read"
                    THEN /\ updReq[p].title # Nil => title'[f] = updReq[p].title
                         /\ updReq[p].title = Nil => title'[f] = title[f]
                         /\ updReq[p].description # Nil => description'[f] = updReq[p].description
                         /\ updReq[p].description = Nil => description'[f] = description[f]
                    ELSE UNCHANGED <<title, description>>]_vars

\* an update has changed the title of a feature that has votes and was
\* answered 200, and another update has failed in the repository
C33_Witness ==
    \E p, q \in Conns :
        /\ p # q
        /\ req[p].op = "update" /\ resp[p].status = StatusOK
        /\ title[req[p].feature] = "t1"
        /\ FeatureVotes(req[p].feature) # {}
        /\ resp[p].vote_count > 0
        /\ req[q].op = "update" /\ resp[q].status = StatusInternalServerError
        /\ resp[q].err \in {"no fields to update", "feature not found",
                             "failed to update feature"}

====
